---- MODULE Spec2Model ----
(***************************************************************************)
(* A model of the flashcard search pipeline of search_essential_logic:     *)
(* the similarity search (flow.py), the rerank reconciliation (rerank.py), *)
(* the id extraction, rank reconciliation, identifier formatting and the   *)
(* bridge to anki_script.py (core.py), each run on its own, then the whole *)
(* of search_flashcards (core.py) and the process of anki_script.py.       *)
(*                                                                         *)
(* Text is a sequence of one-character strings, so that pattern matching,  *)
(* joining and prefixing are computed character by character.              *)
(* Python's 0-based row indices i appear here as i + 1 where they index a  *)
(* TLA+ sequence (top_indices_sim); the indices of the rerank response     *)
(* stay 0-based, as on the wire.                                           *)
(***************************************************************************)
EXTENDS Integers, Sequences, FiniteSets, TLC

VARIABLES
    pc,                             \* position of the running function
    err,                            \* exception that left the function, or "none"
    \* get_top_n_similarities_and_indices (flow.py)
    query_embed, embeddings, top_n_sim,
    similarity_scores, top_indices_sim, top_similarities,
    \* rerank_workflow (rerank.py)
    similarity_top_cards_full_fat, num_wanted_back_from_cohere,
    rerank_requests, cohere_response, reranked_cards,
    \* extract_nid / create_llm_ranked_cards / format_nids_for_anki (core.py)
    llm_response, extracted_nid_list, llm_ranked_cards, formatted_nids,
    \* check_anki_status (core.py)
    stdin_payload, script_stdout, anki_status,
    \* search_flashcards (core.py)
    format_arg, llm_prompt, stage_log, faults, search_result,
    \* main (anki_script.py)
    script_stdin, built_nid_list, result, script_log, script_printed,
    \* two calls of search_flashcards in one process
    corpus_table, provider_answers, searches, next_object

topnVars == <<query_embed, embeddings, top_n_sim,
              similarity_scores, top_indices_sim, top_similarities>>
rerankVars == <<similarity_top_cards_full_fat, num_wanted_back_from_cohere,
                rerank_requests, cohere_response, reranked_cards>>
llmVars == <<llm_response, extracted_nid_list, llm_ranked_cards>>
bridgeVars == <<stdin_payload, script_stdout, anki_status>>
searchVars == <<llm_prompt, stage_log, faults, search_result>>
scriptVars == <<script_stdin, built_nid_list, result, script_log, script_printed>>
twoVars == <<corpus_table, provider_answers, searches, next_object>>
extraVars == <<format_arg, searchVars, scriptVars, twoVars>>
vars == <<pc, err, topnVars, rerankVars, llmVars, formatted_nids, bridgeVars,
          extraVars>>

(***************************************************************************)
(* Bounds of the model.                                                    *)
(***************************************************************************)
MaxRows == 2        \* rows of the embedding matrix
Dim == 2            \* columns of the embedding matrix
CompVals == {0, 1}  \* values of a vector component
MaxCards == 2       \* cards handed to the rerank stage
MaxResults == 2     \* entries of a rerank response
MaxIds == 3         \* identifiers extracted from one generated text
MaxFrags == 4       \* fragments a generated text is put together from

\* an optional number: Python's None, or a number
None == <<>>
Some(n) == <<n>>
NotYet == "NotYet"  \* a string-valued local that has not been assigned

(***************************************************************************)
(* Generic helpers.                                                        *)
(***************************************************************************)
Range(s) == {s[i] : i \in DOMAIN s}

SeqsUpTo(S, n) == UNION {[1..k -> S] : k \in 0..n}

Perms(n) == {p \in [1..n -> 1..n] : \A i, j \in 1..n : p[i] = p[j] => i = j}

RECURSIVE SumTo(_, _)
SumTo(f, n) == IF n = 0 THEN 0 ELSE f[n] + SumTo(f, n - 1)

RECURSIVE Fact(_)
Fact(n) == IF n <= 1 THEN 1 ELSE n * Fact(n - 1)

Reverse(s) == [i \in 1..Len(s) |-> s[Len(s) + 1 - i]]

(***************************************************************************)
(* flow.py: get_top_n_similarities_and_indices                             *)
(***************************************************************************)
Cols(m) == Len(m[1])

\* lines 26-30: the dimension check and the error it raises
DimErr == "ValueError: Embedding dimension mismatch"
DimMismatch_rows(q, m) == Len(q) # Len(m)
DimensionMismatch(q, m) == Len(q) # Cols(m)

Dot(a, b) == SumTo([k \in 1..Len(a) |-> a[k] * b[k]], Len(a))
Norm2(a) == Dot(a, a)
\* lines 33-34 and 37-38: a zero norm is not divided by
SafeNorm2(a) == IF Norm2(a) = 0 THEN 1 ELSE Norm2(a)
NormScale == Fact(Dim)
Sgn(x) == IF x > 0 THEN 1 ELSE IF x < 0 THEN -1 ELSE 0

\* lines 32-42: the cosine c = a.q / (|a| |q|) of a row and the query,
\* held as the integer sgn(c) * c^2 * NormScale^2.  The map is strictly
\* increasing in c, so two scores compare (and tie) as the cosines do.
CosineScore(a, q) ==
    Sgn(Dot(a, q)) * Dot(a, q) * Dot(a, q)
        * (NormScale \div SafeNorm2(a)) * (NormScale \div SafeNorm2(q))

SimilarityScores(q, m) == [i \in 1..Len(m) |-> CosineScore(m[i], q)]

\* Python's seq[start:]
SliceFrom(s, start) ==
    LET n == Len(s)
        from == IF start < 0 THEN (IF n + start < 0 THEN 0 ELSE n + start)
                ELSE (IF start > n THEN n ELSE start)
    IN  SubSeq(s, from + 1, n)

\* np.argpartition(scores, kth): kth is normalised into 0..n-1 or rejected
KthOutOfBounds(n, kth) == kth < -n \/ kth >= n
KthPos(n, kth) == (IF kth < 0 THEN kth + n ELSE kth) + 1

\* line 45: every arrangement numpy's introselect may leave: the element at
\* the kth place is in its sorted place, smaller ones before, larger after;
\* the order inside the two parts is unspecified.
ArgPartition_unpartitioned(scores, kth) == Perms(Len(scores))
ArgPartition(scores, kth) ==
    LET n == Len(scores)
        k == KthPos(n, kth)
    IN  {p \in Perms(n) :
            /\ \A i \in 1..n : i < k => scores[p[i]] <= scores[p[k]]
            /\ \A i \in 1..n : i > k => scores[p[i]] >= scores[p[k]]}

\* line 46: np.argsort (quicksort, not stable): every ascending arrangement
ArgSort(vals) ==
    {p \in Perms(Len(vals)) :
        \A i \in 1..Len(vals) - 1 : vals[p[i]] <= vals[p[i + 1]]}

\* lines 45-46: the index arrays the selection can return
TopIndices(scores, n) ==
    UNION {
        LET cand == SliceFrom(part, -n)
            vals == [i \in 1..Len(cand) |-> scores[cand[i]]]
        IN  {[i \in 1..Len(cand) |-> cand[Reverse(ord)[i]]] : ord \in ArgSort(vals)}
        : part \in ArgPartition(scores, -n)}

Vectors(d) == [1..d -> CompVals]
Matrices == UNION {[1..r -> Vectors(Dim)] : r \in 1..MaxRows}
\* queries of the matrix's width, and one shorter and one longer
Queries == Vectors(Dim) \cup {[k \in 1..Dim - 1 |-> 1], [k \in 1..Dim + 1 |-> 1]}

\* the state of a function that is not running
IdleTopN ==
    /\ query_embed = <<>> /\ embeddings = <<>> /\ top_n_sim = 0
    /\ similarity_scores = <<>> /\ top_indices_sim = <<>>
    /\ top_similarities = <<>>
IdleRerank ==
    /\ similarity_top_cards_full_fat = <<>>
    /\ num_wanted_back_from_cohere = None
    /\ rerank_requests = <<>> /\ cohere_response = <<>>
    /\ reranked_cards = <<>>
IdleLlm ==
    /\ llm_response = <<>> /\ extracted_nid_list = <<>>
    /\ llm_ranked_cards = <<>>
\* what a process that has not run has written: nothing
NoOutput == [kind |-> "none", members |-> <<>>]
IdleFormat == formatted_nids = <<>> /\ format_arg = "dict"
\* no search is under way
NotReturned == [kind |-> "pending"]
IdleSearch ==
    /\ llm_prompt = <<>> /\ stage_log = <<>> /\ faults = <<>>
    /\ search_result = NotReturned
\* no pair of searches is under way
IdleTwo ==
    /\ corpus_table = <<>> /\ provider_answers = <<>> /\ searches = <<>>
    /\ next_object = 0
\* no script is running
NoResult == [anki_status |-> NotYet, success |-> FALSE, message |-> ""]
IdleScript ==
    /\ script_stdin = NoOutput /\ built_nid_list = <<>> /\ result = NoResult
    /\ script_log = <<>> /\ script_printed = <<>>
IdleBridge ==
    /\ stdin_payload = <<>> /\ script_stdout = NoOutput /\ anki_status = NotYet

\* lines 22-30
TopNCheckDims ==
    /\ pc = "topn_start"
    /\ IF DimensionMismatch(query_embed, embeddings)
       THEN pc' = "topn_raised" /\ err' = DimErr
       ELSE pc' = "topn_checked" /\ err' = err
    /\ UNCHANGED <<extraVars, topnVars, rerankVars, llmVars, formatted_nids, bridgeVars>>

\* lines 32-43
TopNSimilarity ==
    /\ pc = "topn_checked"
    /\ IF Len(query_embed) # Cols(embeddings)
       THEN \* the matrix product rejects operands that do not fit
            /\ pc' = "topn_raised" /\ err' = "ValueError: matmul"
            /\ UNCHANGED similarity_scores
       ELSE /\ similarity_scores' = SimilarityScores(query_embed, embeddings)
            /\ pc' = "topn_scored" /\ err' = err
    /\ UNCHANGED <<extraVars, query_embed, embeddings, top_n_sim, top_indices_sim,
                   top_similarities, rerankVars, llmVars, formatted_nids, bridgeVars>>

\* lines 45-49
TopNSelect ==
    /\ pc = "topn_scored"
    /\ IF KthOutOfBounds(Len(similarity_scores), -top_n_sim)
       THEN /\ pc' = "topn_raised" /\ err' = "ValueError: kth out of bounds"
            /\ UNCHANGED <<top_indices_sim, top_similarities>>
       ELSE /\ \E idx \in TopIndices(similarity_scores, top_n_sim) :
                /\ top_indices_sim' = idx
                /\ top_similarities' =
                       [i \in 1..Len(idx) |-> similarity_scores[idx[i]]]
            /\ pc' = "topn_done" /\ err' = err
    /\ UNCHANGED <<extraVars, query_embed, embeddings, top_n_sim, similarity_scores,
                   rerankVars, llmVars, formatted_nids, bridgeVars>>

InitTopN ==
    /\ pc = "topn_start" /\ err = "none"
    /\ IdleSearch /\ IdleTwo /\ IdleScript
    /\ IdleRerank /\ IdleLlm /\ IdleFormat /\ IdleBridge
    /\ similarity_scores = <<>> /\ top_indices_sim = <<>>
    /\ top_similarities = <<>>
    /\ \E m \in Matrices, q \in Queries :
          /\ embeddings = m /\ query_embed = q
          /\ \E n \in 0..Len(m) + 1 : top_n_sim = n

NextTopN == TopNCheckDims \/ TopNSimilarity \/ TopNSelect

SpecTopN == InitTopN /\ [][NextTopN]_vars

(***************************************************************************)
(* The corpus table (the dataframe of load_searcher_context): three        *)
(* flashcards with 13-digit note ids.                                      *)
(***************************************************************************)
NidWidth == 13
Nid(d) == [i \in 1..NidWidth |-> d]
Corpus == << [nid |-> Nid("1"), flashcard_content |-> <<"a">>],
             [nid |-> Nid("2"), flashcard_content |-> <<"b">>],
             [nid |-> Nid("3"), flashcard_content |-> <<"c">>] >>

WithField(rec, k, v) ==
    [f \in DOMAIN rec \cup {k} |-> IF f = k THEN v ELSE rec[f]]

\* a lookup that takes the content from the row of the card's rank
prepare_top_cards_list_contentByRank(idx, sims, dataframe) ==
    [i \in 1..Len(idx) |->
        [cosine_similarity_rank |-> i,
         nid |-> dataframe[idx[i]].nid,
         cosine_similarity_score |-> sims[i],
         content |-> dataframe[i].flashcard_content]]

\* flow.py: prepare_top_cards_list
prepare_top_cards_list(idx, sims, dataframe) ==
    [i \in 1..Len(idx) |->
        [cosine_similarity_rank |-> i,
         nid |-> dataframe[idx[i]].nid,
         cosine_similarity_score |-> sims[i],
         content |-> dataframe[idx[i]].flashcard_content]]

(***************************************************************************)
(* rerank.py                                                               *)
(***************************************************************************)
\* prepare_for_cohere: the content strings, and the cards by 0-based position
content_list_for_cohere(cards) == [i \in 1..Len(cards) |-> cards[i].content]
cohere_pre_rank_index(cards) == [i \in 0..Len(cards) - 1 |-> cards[i + 1]]

\* list.sort(key=relevance_rank): stable insertion by the key
RECURSIVE InsertByRank(_, _)
InsertByRank(sorted, card) ==
    IF sorted = <<>> THEN <<card>>
    ELSE IF sorted[Len(sorted)].relevance_rank <= card.relevance_rank
         THEN Append(sorted, card)
         ELSE Append(InsertByRank(SubSeq(sorted, 1, Len(sorted) - 1), card),
                     sorted[Len(sorted)])

RECURSIVE SortByRelevanceRank(_)
SortByRelevanceRank(cards) ==
    IF cards = <<>> THEN <<>>
    ELSE InsertByRank(SortByRelevanceRank(SubSeq(cards, 1, Len(cards) - 1)),
                      cards[Len(cards)])

\* a loop that ends at the first entry whose index is no key of the lookup
RECURSIVE ReconstructLoop_stopsAtUnknown(_, _, _)
ReconstructLoop_stopsAtUnknown(results, index, k) ==
    IF k = 0 THEN <<>>
    ELSE LET before == ReconstructLoop_stopsAtUnknown(results, index, k - 1)
             cohere_result == results[k]
         IN  IF \A j \in 1..k : results[j].index \in DOMAIN index
             THEN Append(before,
                         WithField(WithField(index[cohere_result.index],
                                             "relevance_score",
                                             cohere_result.relevance_score),
                                   "relevance_rank", k))
             ELSE before

\* reconstruct_from_cohere, the loop of lines 43-52 over results[1..k]:
\* relevance_rank is the entry's place in the response; an entry whose index
\* is no key of the lookup raises KeyError, which is logged and skipped
RECURSIVE ReconstructLoop(_, _, _)
ReconstructLoop(results, index, k) ==
    IF k = 0 THEN <<>>
    ELSE LET before == ReconstructLoop(results, index, k - 1)
             cohere_result == results[k]
         IN  IF cohere_result.index \in DOMAIN index
             THEN Append(before,
                         WithField(WithField(index[cohere_result.index],
                                             "relevance_score",
                                             cohere_result.relevance_score),
                                   "relevance_rank", k))
             ELSE before

reconstruct_from_cohere(response, index) ==
    SortByRelevanceRank(ReconstructLoop(response, index, Len(response)))

\* rerank_workflow line 81: "if not similarity_top_cards_full_fat"
NoCards_never(cards) == FALSE
NoCards(cards) == cards = <<>>

\* a workflow that hands the number on as it is
TopNForCohere_asGiven(num) == num
\* rerank_workflow line 92: "num if num else None"
TopNForCohere(num) == IF num = None \/ num = Some(0) THEN None ELSE num

\* lines 78-83
RerankStart ==
    /\ pc = "rerank_start"
    /\ IF NoCards(similarity_top_cards_full_fat)
       THEN reranked_cards' = <<>> /\ pc' = "rerank_done"
       ELSE UNCHANGED reranked_cards /\ pc' = "rerank_call"
    /\ UNCHANGED <<extraVars, err, topnVars, similarity_top_cards_full_fat,
                   num_wanted_back_from_cohere, rerank_requests, cohere_response,
                   llmVars, formatted_nids, bridgeVars>>

RerankRequest ==
    [documents |-> content_list_for_cohere(similarity_top_cards_full_fat),
     top_n |-> TopNForCohere(num_wanted_back_from_cohere)]

\* what the provider may answer: any list of (index, relevance_score)
CohereIndices == 0..MaxCards
RelevanceScores == {7, 9}
CohereResponses ==
    SeqsUpTo([index : CohereIndices, relevance_score : RelevanceScores], MaxResults)

\* lines 85-93: the provider answers
RerankCallReturns ==
    /\ pc = "rerank_call"
    /\ rerank_requests' = Append(rerank_requests, RerankRequest)
    /\ \E r \in CohereResponses : cohere_response' = r
    /\ pc' = "rerank_reconstruct"
    /\ UNCHANGED <<extraVars, err, topnVars, similarity_top_cards_full_fat,
                   num_wanted_back_from_cohere, reranked_cards,
                   llmVars, formatted_nids, bridgeVars>>

\* a workflow that answers a failed call with no cards, as chat_with_final_llm
\* answers one with a text
RerankCallRaises_swallowed ==
    /\ pc = "rerank_call"
    /\ rerank_requests' = Append(rerank_requests, RerankRequest)
    /\ err' = "RequestException" /\ pc' = "rerank_done"
    /\ UNCHANGED <<extraVars, topnVars, similarity_top_cards_full_fat,
                   num_wanted_back_from_cohere, cohere_response, reranked_cards,
                   llmVars, formatted_nids, bridgeVars>>

\* a workflow that calls the provider again after a failed call
RerankCallRaises_retries ==
    /\ pc = "rerank_call"
    /\ rerank_requests' = Append(rerank_requests, RerankRequest)
    /\ pc' = "rerank_call"
    /\ UNCHANGED <<extraVars, err, topnVars, similarity_top_cards_full_fat,
                   num_wanted_back_from_cohere, cohere_response, reranked_cards,
                   llmVars, formatted_nids, bridgeVars>>

\* lines 89 and 101-103: the provider call raises, and the workflow re-raises
RerankCallRaises ==
    /\ pc = "rerank_call"
    /\ rerank_requests' = Append(rerank_requests, RerankRequest)
    /\ err' = "RequestException" /\ pc' = "rerank_raised"
    /\ UNCHANGED <<extraVars, topnVars, similarity_top_cards_full_fat,
                   num_wanted_back_from_cohere, cohere_response, reranked_cards,
                   llmVars, formatted_nids, bridgeVars>>

\* lines 95-99
RerankReconstruct ==
    /\ pc = "rerank_reconstruct"
    /\ reranked_cards' =
          reconstruct_from_cohere(cohere_response,
              cohere_pre_rank_index(similarity_top_cards_full_fat))
    /\ pc' = "rerank_done"
    /\ UNCHANGED <<extraVars, err, topnVars, similarity_top_cards_full_fat,
                   num_wanted_back_from_cohere, rerank_requests, cohere_response,
                   llmVars, formatted_nids, bridgeVars>>

InjectiveSeqs(S, n) ==
    {q \in SeqsUpTo(S, n) : \A i, j \in 1..Len(q) : q[i] = q[j] => i = j}

\* similarity-ranked lists: distinct corpus rows with descending scores
SimilarityLists ==
    {prepare_top_cards_list(idx, [i \in 1..Len(idx) |-> Len(idx) - i], Corpus) :
        idx \in InjectiveSeqs(1..Len(Corpus), MaxCards)}

InitRerank ==
    /\ pc = "rerank_start" /\ err = "none"
    /\ IdleSearch /\ IdleTwo /\ IdleScript
    /\ IdleTopN /\ IdleLlm /\ IdleFormat /\ IdleBridge
    /\ similarity_top_cards_full_fat \in SimilarityLists
    /\ num_wanted_back_from_cohere \in {None} \cup {Some(n) : n \in 0..MaxCards}
    /\ rerank_requests = <<>> /\ cohere_response = <<>>
    /\ reranked_cards = <<>>

NextRerank ==
    RerankStart \/ RerankCallReturns \/ RerankCallRaises \/ RerankReconstruct

SpecRerank == InitRerank /\ [][NextRerank]_vars

(***************************************************************************)
(* core.py: extract_nid                                                    *)
(***************************************************************************)
Digits == {"0", "1", "2", "3", "4", "5", "6", "7", "8", "9"}

\* line 181: pattern = r'\[nid:(\d{13})\]'
PatternOpen == <<"[", "n", "i", "d", ":">>
PatternClose == "]"
PatternLen == Len(PatternOpen) + NidWidth + 1

\* the digits a match starting at place p captures
Group(text, p) == SubSeq(text, p + Len(PatternOpen), p + Len(PatternOpen) + NidWidth - 1)

MatchesAt_noClose(text, p) ==
    /\ p + Len(PatternOpen) + NidWidth - 1 <= Len(text)
    /\ SubSeq(text, p, p + Len(PatternOpen) - 1) = PatternOpen
    /\ \A k \in 1..NidWidth : Group(text, p)[k] \in Digits
MatchesAt(text, p) ==
    /\ p + PatternLen - 1 <= Len(text)
    /\ SubSeq(text, p, p + Len(PatternOpen) - 1) = PatternOpen
    /\ \A k \in 1..NidWidth : Group(text, p)[k] \in Digits
    /\ text[p + PatternLen - 1] = PatternClose

\* line 182: re.findall scans left to right and resumes after each match
RECURSIVE FindAllFrom(_, _)
FindAllFrom(text, p) ==
    IF p > Len(text) THEN <<>>
    ELSE IF MatchesAt(text, p)
         THEN <<Group(text, p)>> \o FindAllFrom(text, p + PatternLen)
         ELSE FindAllFrom(text, p + 1)

extract_nid(text) == FindAllFrom(text, 1)

(***************************************************************************)
(* core.py: create_llm_ranked_cards                                        *)
(***************************************************************************)
\* a lookup that keeps the first card of a nid
nid_to_card_firstWins(cards) ==
    [n \in {cards[i].nid : i \in 1..Len(cards)} |->
        cards[CHOOSE i \in 1..Len(cards) :
                /\ cards[i].nid = n
                /\ \A j \in 1..Len(cards) : cards[j].nid = n => i <= j]]

\* line 209: the dict comprehension keeps, for each nid, the last card
nid_to_card(cards) ==
    [n \in {cards[i].nid : i \in 1..Len(cards)} |->
        cards[CHOOSE i \in 1..Len(cards) :
                /\ cards[i].nid = n
                /\ \A j \in 1..Len(cards) : cards[j].nid = n => j <= i]]

\* lines 213-217 over extracted_nids[1..k]: rank is the place of the nid in
\* the extracted list
RECURSIVE LlmRankLoop(_, _, _)
LlmRankLoop(lookup, nids, k) ==
    IF k = 0 THEN <<>>
    ELSE LET before == LlmRankLoop(lookup, nids, k - 1)
         IN  IF nids[k] \in DOMAIN lookup
             THEN Append(before, WithField(lookup[nids[k]], "llm_rank", k))
             ELSE before

create_llm_ranked_cards_inputOrder(cards, nids) ==
    LET mentioned == SelectSeq(cards, LAMBDA c : c.nid \in Range(nids))
    IN  [i \in 1..Len(mentioned) |-> WithField(mentioned[i], "llm_rank", i)]
create_llm_ranked_cards(cards, nids) ==
    LlmRankLoop(nid_to_card(cards), nids, Len(nids))

(***************************************************************************)
(* core.py: format_nids_for_anki                                           *)
(***************************************************************************)
\* ','.join(nids)
RECURSIVE JoinComma(_)
JoinComma(nids) ==
    IF nids = <<>> THEN <<>>
    ELSE IF Len(nids) = 1 THEN nids[1]
    ELSE nids[1] \o <<",">> \o JoinComma(Tail(nids))

\* lines 84-91
FormatNids_bareList(nids) == JoinComma(nids)
FormatNids(nids) ==
    IF nids = <<>> THEN <<>>
    ELSE <<"n", "i", "d", ":">> \o JoinComma(nids)

(***************************************************************************)
(* The three functions run on their own.                                   *)
(***************************************************************************)
ExtractNid ==
    /\ pc = "extract_start"
    /\ extracted_nid_list' = extract_nid(llm_response)
    /\ pc' = "extract_done"
    /\ UNCHANGED <<extraVars, err, topnVars, rerankVars, llm_response, llm_ranked_cards,
                   formatted_nids, bridgeVars>>

\* a reconciliation that writes llm_rank into the cards it was given, as it
\* would without the copy of line 215
CreateLlmRankedCards_inPlace ==
    /\ pc = "llmrank_start"
    /\ llm_ranked_cards' = create_llm_ranked_cards(reranked_cards, extracted_nid_list)
    /\ reranked_cards' =
          [i \in 1..Len(reranked_cards) |->
              IF \E k \in 1..Len(llm_ranked_cards') :
                     llm_ranked_cards'[k].nid = reranked_cards[i].nid
              THEN WithField(reranked_cards[i], "llm_rank",
                             CHOOSE r \in 1..Len(extracted_nid_list) :
                                 \E k \in 1..Len(llm_ranked_cards') :
                                     /\ llm_ranked_cards'[k].nid = reranked_cards[i].nid
                                     /\ llm_ranked_cards'[k].llm_rank = r)
              ELSE reranked_cards[i]]
    /\ pc' = "llmrank_done"
    /\ UNCHANGED <<extraVars, err, topnVars, similarity_top_cards_full_fat,
                   num_wanted_back_from_cohere, rerank_requests, cohere_response,
                   llm_response, extracted_nid_list, formatted_nids, bridgeVars>>

CreateLlmRankedCards ==
    /\ pc = "llmrank_start"
    /\ llm_ranked_cards' = create_llm_ranked_cards(reranked_cards, extracted_nid_list)
    /\ pc' = "llmrank_done"
    /\ UNCHANGED <<extraVars, err, topnVars, rerankVars, llm_response, extracted_nid_list,
                   formatted_nids, bridgeVars>>

\* line 80: "not per_search_result_dictionary or 'extracted_nid_list' not in"
MissingList(arg) == arg \in {"None", "empty_dict", "dict_without_list"}

\* format_nids_for_anki, lines 79-91; format_arg is the kind of its argument,
\* and None supports no item assignment (line 81)
FormatNidsForAnki ==
    /\ pc = "format_start"
    /\ IF MissingList(format_arg)
       THEN IF format_arg = "None"
            THEN /\ err' = "TypeError" /\ pc' = "format_raised"
                 /\ UNCHANGED formatted_nids
            ELSE /\ formatted_nids' = <<>>
                 /\ err' = err /\ pc' = "format_done"
       ELSE /\ formatted_nids' = FormatNids(extracted_nid_list)
            /\ err' = err /\ pc' = "format_done"
    /\ UNCHANGED <<extraVars, topnVars, rerankVars, llmVars, bridgeVars>>

\* generated texts: put together from whole tokens and from pieces of tokens
Fragments ==
    { PatternOpen \o Nid("1") \o <<"]">>,
      PatternOpen \o Nid("2") \o <<"]">>,
      PatternOpen, <<"[", "i", "d", ":">>, <<"]">>,
      [i \in 1..NidWidth - 1 |-> "3"], Nid("3"), <<"3">>, <<" ", "f", "o", "o", " ">> }

RECURSIVE Flatten(_)
Flatten(parts) == IF parts = <<>> THEN <<>> ELSE parts[1] \o Flatten(Tail(parts))

Texts == {Flatten(parts) : parts \in SeqsUpTo(Fragments, MaxFrags)}

InitExtract ==
    /\ pc = "extract_start" /\ err = "none"
    /\ IdleSearch /\ IdleTwo /\ IdleScript
    /\ IdleTopN /\ IdleRerank /\ IdleFormat /\ IdleBridge
    /\ llm_response \in Texts
    /\ extracted_nid_list = <<>> /\ llm_ranked_cards = <<>>

SpecExtract == InitExtract /\ [][ExtractNid]_vars

\* identifiers a text can name: the corpus's, and one of no card
NidPool == {Corpus[i].nid : i \in 1..Len(Corpus)} \cup {Nid("9")}

\* relevance-ranked lists: what the reconciler makes of the provider's answers
CandidateCards ==
    LET n == IF MaxCards < Len(Corpus) THEN MaxCards ELSE Len(Corpus)
    IN  prepare_top_cards_list([i \in 1..n |-> i], [i \in 1..n |-> n - i], Corpus)
RerankedLists ==
    {reconstruct_from_cohere(r, cohere_pre_rank_index(CandidateCards)) :
        r \in SeqsUpTo([index : CohereIndices, relevance_score : {7}], MaxResults)}

InitLlmRank ==
    /\ pc = "llmrank_start" /\ err = "none"
    /\ IdleSearch /\ IdleTwo /\ IdleScript
    /\ IdleTopN /\ IdleFormat /\ IdleBridge
    /\ similarity_top_cards_full_fat = CandidateCards
    /\ num_wanted_back_from_cohere = None
    /\ rerank_requests = <<>> /\ cohere_response = <<>>
    /\ reranked_cards \in RerankedLists
    /\ llm_response = <<>>
    /\ extracted_nid_list \in SeqsUpTo(NidPool, MaxIds)
    /\ llm_ranked_cards = <<>>

SpecLlmRank == InitLlmRank /\ [][CreateLlmRankedCards]_vars

InitFormat ==
    /\ pc = "format_start" /\ err = "none"
    /\ IdleSearch /\ IdleTwo /\ IdleScript
    /\ IdleTopN /\ IdleRerank /\ IdleBridge
    /\ llm_response = <<>>
    /\ format_arg \in {"None", "empty_dict", "dict_without_list", "dict"}
    /\ IF MissingList(format_arg)
       THEN extracted_nid_list = <<>>
       ELSE extracted_nid_list \in
               SeqsUpTo(NidPool \cup {<<"1", "1", "1">>, <<"2", "2", "2">>}, MaxIds)
    /\ llm_ranked_cards = <<>>
    /\ formatted_nids = <<>>

SpecFormat == InitFormat /\ [][FormatNidsForAnki]_vars

(***************************************************************************)
(* core.py: check_anki_status, the bridge to anki_script.py                *)
(***************************************************************************)
\* The standard output of the script is held parsed: kind tells whether it is
\* empty, text that is no JSON document, or a JSON document of some type, and
\* members holds the members of a JSON object.
JsonObject(m) == [kind |-> "json_object", members |-> m]
NotObject(k) == [kind |-> k, members |-> <<>>]

\* anki_script.py main, lines 249-279: the one object each path prints
ScriptResults ==
    { JsonObject([anki_status |-> "myy_error", success |-> FALSE,
                  message |-> "Unsupported operating system"]),
      JsonObject([anki_status |-> "Anki is running", success |-> FALSE,
                  message |-> "Failed to contact AnkiConnect"]),
      JsonObject([anki_status |-> "Anki is running", success |-> TRUE,
                  message |-> "Successfully opened Anki browser with query"]),
      JsonObject([anki_status |-> "Anki is running", success |-> FALSE,
                  message |-> "Failed to focus/populate Anki"]),
      JsonObject([anki_status |-> "Anki not running", success |-> FALSE,
                  message |-> "Anki is not running"]) }

\* what a script that broke down, or another program in its place, may print
MalformedOutputs ==
    { NotObject("empty"), NotObject("not_json"),
      NotObject("json_array"), NotObject("json_string"),
      NotObject("json_number"), NotObject("json_null"),
      JsonObject([success |-> FALSE, message |-> "no status"]),
      JsonObject(<<>>) }

Stdouts == ScriptResults \cup MalformedOutputs

ErrFormat == "Error: Invalid response format from script"
ErrStructure == "Error: Invalid response structure from script"
ErrDefault == "Error: Invalid response from script"
ErrChecking == "Error checking Anki"

\* line 145: json.loads raises JSONDecodeError
JsonLoadsFails(out) == out.kind \in {"empty", "not_json"}

\* line 146: not isinstance(response, dict) or "anki_status" not in response
InvalidStructure_never(out) == FALSE
InvalidStructure(out) ==
    out.kind # "json_object" \/ "anki_status" \notin DOMAIN out.members

\* lines 144-152
StatusFromStdout(out) ==
    IF JsonLoadsFails(out) THEN ErrFormat
    ELSE IF InvalidStructure(out) THEN ErrStructure
    ELSE IF "anki_status" \in DOMAIN out.members
         THEN out.members.anki_status
         ELSE ErrDefault

\* the value check_anki_status returns: the status string and nothing else
SyncResult == [anki_status |-> anki_status]

\* a bridge that sends the ids of the cards that were found
BridgeStart_matchedOnly ==
    /\ pc = "bridge_start"
    /\ stdin_payload' =
          <<[formatted_nids |->
                FormatNids([i \in 1..Len(llm_ranked_cards) |->
                               llm_ranked_cards[i].nid])]>>
    /\ pc' = "bridge_run"
    /\ UNCHANGED <<extraVars, err, topnVars, rerankVars, llmVars, formatted_nids,
                   script_stdout, anki_status>>

\* lines 117-127: the request written to the script's standard input
BridgeStart ==
    /\ pc = "bridge_start"
    /\ stdin_payload' = <<[formatted_nids |-> formatted_nids]>>
    /\ pc' = "bridge_run"
    /\ UNCHANGED <<extraVars, err, topnVars, rerankVars, llmVars, formatted_nids,
                   script_stdout, anki_status>>

\* lines 129-141: the script runs to its end and its output is captured
BridgeRunReturns ==
    /\ pc = "bridge_run"
    /\ \E out \in Stdouts : script_stdout' = out
    /\ pc' = "bridge_parse"
    /\ UNCHANGED <<extraVars, err, topnVars, rerankVars, llmVars, formatted_nids,
                   stdin_payload, anki_status>>

\* a bridge without the handler of lines 154-156
BridgeRunRaises_propagates ==
    /\ pc = "bridge_run"
    /\ err' = "OSError"
    /\ pc' = "search_raised"
    /\ UNCHANGED <<extraVars, topnVars, rerankVars, llmVars, formatted_nids,
                   bridgeVars>>

\* lines 129 and 154-156: subprocess.run raises, and the handler returns
BridgeRunRaises ==
    /\ pc = "bridge_run"
    /\ anki_status' = ErrChecking
    /\ pc' = "bridge_done"
    /\ UNCHANGED <<extraVars, err, topnVars, rerankVars, llmVars, formatted_nids,
                   stdin_payload, script_stdout>>

\* lines 143-152
BridgeParse ==
    /\ pc = "bridge_parse"
    /\ anki_status' = StatusFromStdout(script_stdout)
    /\ pc' = "bridge_done"
    /\ UNCHANGED <<extraVars, err, topnVars, rerankVars, llmVars, formatted_nids,
                   stdin_payload, script_stdout>>

InitBridge ==
    /\ pc = "bridge_start" /\ err = "none"
    /\ IdleSearch /\ IdleTwo /\ IdleScript
    /\ IdleTopN /\ IdleRerank /\ IdleBridge
    /\ llm_response = <<>> /\ llm_ranked_cards = <<>>
    /\ extracted_nid_list \in SeqsUpTo(NidPool, MaxIds)
    /\ formatted_nids = FormatNids(extracted_nid_list) /\ format_arg = "dict"

NextBridge == BridgeStart \/ BridgeRunReturns \/ BridgeRunRaises \/ BridgeParse

SpecBridge == InitBridge /\ [][NextBridge]_vars

(***************************************************************************)
(* core.py: search_flashcards, the whole pipeline.  The stages are the     *)
(* functions modelled above; the actions below are the statements of       *)
(* search_flashcards between them.  stage_log records each stage as it is  *)
(* invoked, faults each provider call that raised.                         *)
(***************************************************************************)
QueryText == <<"q">>

\* runtime configuration: the prompt template and the number it is filled with
Placeholder == "{in_prompt_number}"
personal_LLM_prompt == <<"t", "o", "p", " ", Placeholder>>
in_prompt_number == 2
Decimal(n) == <<<<"0", "1", "2", "3", "4", "5", "6", "7", "8", "9">>[n + 1]>>

\* str.format on the template, lines 289-291
FormatTemplate(template, n) ==
    Flatten([i \in 1..Len(template) |->
                IF template[i] = Placeholder THEN Decimal(n) ELSE <<template[i]>>])

\* a pool that lists the cards last to first
RECURSIVE FlashcardPool_reversed(_)
FlashcardPool_reversed(cards) ==
    IF cards = <<>> THEN <<>>
    ELSE FlashcardPool_reversed(Tail(cards))
         \o <<"-", " ", "[", "n", "i", "d", ":">> \o cards[1].nid \o <<"]", " ">>
         \o cards[1].content \o <<"\n">>

\* flow.py: format_flashcard_results_for_llm
RECURSIVE FlashcardPool(_)
FlashcardPool(cards) ==
    IF cards = <<>> THEN <<>>
    ELSE <<"-", " ", "[", "n", "i", "d", ":">> \o cards[1].nid \o <<"]", " ">>
         \o cards[1].content \o <<"\n">> \o FlashcardPool(Tail(cards))

format_flashcard_results_for_llm(header_that_is_prompt, query_text, cards) ==
    <<"#", " ", "P", "r", "o", "m", "p", "t", "\n">> \o header_that_is_prompt
    \o <<"\n", "\n">>
    \o <<"#", "#", " ", "Q", "u", "e", "r", "y", "\n">> \o query_text
    \o <<"\n", "\n">>
    \o <<"#", "#", " ", "F", "l", "a", "s", "h", "c", "a", "r", "d", " ",
         "P", "o", "o", "l", "\n">>
    \o FlashcardPool(cards)

\* the value search_flashcards builds at lines 306-316 and fills at 321-332
per_search_result_dictionary ==
    [query |-> QueryText,
     similarity_top_cards_full_fat |-> similarity_top_cards_full_fat,
     reranked_cards |-> reranked_cards,
     llm_prompt |-> llm_prompt,
     llm_response |-> llm_response,
     extracted_nid_list |-> extracted_nid_list,
     formatted_nids |-> formatted_nids,
     anki_status |-> anki_status,
     llm_ranked_cards |-> llm_ranked_cards]

\* what the providers are given and answer in a search
PipelineEmbeddings ==
    [r \in 1..MaxRows |-> [k \in 1..Dim |-> IF k = ((r - 1) % Dim) + 1 THEN 1 ELSE 0]]
PipelineQueries ==
    { [k \in 1..Dim |-> 1], [k \in 1..Dim |-> IF k = 1 THEN 1 ELSE 0],
      [k \in 1..Dim + 1 |-> 1] }
Entry(i) == [index |-> i, relevance_score |-> 7]
PipelineResponses(k) ==
    { <<>>, <<Entry(0)>>, <<Entry(k - 1), Entry(0)>>, <<Entry(0), Entry(0)>>,
      <<Entry(k), Entry(0)>> }
Token(d) == <<"[", "n", "i", "d", ":">> \o Nid(d) \o <<"]">>
PipelineTexts ==
    { <<>>, <<" ", "f", "o", "o", " ">>, Token("2") \o Token("1"),
      Token("1") \o <<" ">> \o Token("1"), Token("9") \o Token("1") }
\* flow.py line 110: the text chat_with_final_llm returns for an exception
ErrorText == <<"E", "r", "r", "o", "r", ":", " ", "e">>

\* line 265: the embedding provider answers
SearchGetEmbedding ==
    /\ pc = "search_start"
    /\ stage_log' = Append(stage_log, "embedding")
    /\ \E q \in PipelineQueries : query_embed' = q
    /\ pc' = "search_embedded"
    /\ UNCHANGED <<err, embeddings, top_n_sim, similarity_scores, top_indices_sim,
                   top_similarities, rerankVars, llmVars, formatted_nids,
                   bridgeVars, format_arg, llm_prompt, faults, search_result,
                   scriptVars, twoVars>>

\* line 265 and myy_api.py lines 63-66: the embedding provider raises
SearchGetEmbeddingRaises ==
    /\ pc = "search_start"
    /\ stage_log' = Append(stage_log, "embedding")
    /\ faults' = Append(faults, "embedding")
    /\ err' = "EmbeddingError" /\ pc' = "search_raised"
    /\ UNCHANGED <<topnVars, rerankVars, llmVars, formatted_nids, bridgeVars,
                   format_arg, llm_prompt, search_result, scriptVars, twoVars>>

\* lines 268-272: the similarity search is called
SearchCallTopN ==
    /\ pc = "search_embedded"
    /\ stage_log' = Append(stage_log, "similarity")
    /\ pc' = "topn_start"
    /\ UNCHANGED <<err, topnVars, rerankVars, llmVars, formatted_nids, bridgeVars,
                   format_arg, llm_prompt, faults, search_result, scriptVars,
                   twoVars>>

\* lines 275-286: the cards are looked up and the rerank workflow is called
SearchCallRerank ==
    /\ pc = "topn_done"
    /\ similarity_top_cards_full_fat' =
          prepare_top_cards_list(top_indices_sim, top_similarities, Corpus)
    /\ stage_log' = Append(stage_log, "rerank")
    /\ pc' = "rerank_start"
    /\ UNCHANGED <<err, topnVars, num_wanted_back_from_cohere, rerank_requests,
                   cohere_response, reranked_cards, llmVars, formatted_nids,
                   bridgeVars, format_arg, llm_prompt, faults, search_result,
                   scriptVars, twoVars>>

\* the rerank provider's answer, one of the answers of a search
SearchRerankCallReturns ==
    /\ RerankCallReturns
    /\ cohere_response' \in PipelineResponses(Len(similarity_top_cards_full_fat))

\* lines 289-294: the prompt is put together
SearchAssemblePrompt ==
    /\ pc = "rerank_done"
    /\ llm_prompt' =
          format_flashcard_results_for_llm(
              FormatTemplate(personal_LLM_prompt, in_prompt_number),
              QueryText, reranked_cards)
    /\ stage_log' = Append(stage_log, "prompt")
    /\ pc' = "search_prompted"
    /\ UNCHANGED <<err, topnVars, rerankVars, llmVars, formatted_nids, bridgeVars,
                   format_arg, faults, search_result, scriptVars, twoVars>>

\* line 297 and flow.py line 107: the generation provider answers
SearchChatReturns ==
    /\ pc = "search_prompted"
    /\ stage_log' = Append(stage_log, "generation")
    /\ \E text \in PipelineTexts : llm_response' = text
    /\ pc' = "search_generated"
    /\ UNCHANGED <<err, topnVars, rerankVars, extracted_nid_list, llm_ranked_cards,
                   formatted_nids, bridgeVars, format_arg, llm_prompt, faults,
                   search_result, scriptVars, twoVars>>

\* line 297 and flow.py lines 108-110: the generation provider raises, and
\* chat_with_final_llm returns the error as the text
SearchChatFails ==
    /\ pc = "search_prompted"
    /\ stage_log' = Append(stage_log, "generation")
    /\ faults' = Append(faults, "generation")
    /\ llm_response' = ErrorText
    /\ pc' = "search_generated"
    /\ UNCHANGED <<err, topnVars, rerankVars, extracted_nid_list, llm_ranked_cards,
                   formatted_nids, bridgeVars, format_arg, llm_prompt,
                   search_result, scriptVars, twoVars>>

\* line 300: the identifiers are extracted
SearchCallExtract ==
    /\ pc = "search_generated"
    /\ stage_log' = Append(stage_log, "extract")
    /\ pc' = "extract_start"
    /\ UNCHANGED <<err, topnVars, rerankVars, llmVars, formatted_nids, bridgeVars,
                   format_arg, llm_prompt, faults, search_result, scriptVars,
                   twoVars>>

\* lines 306-322: the result dictionary is built and handed to the formatter
SearchCallFormat ==
    /\ pc = "extract_done"
    /\ format_arg' = "dict"
    /\ stage_log' = Append(stage_log, "format")
    /\ pc' = "format_start"
    /\ UNCHANGED <<err, topnVars, rerankVars, llmVars, formatted_nids, bridgeVars,
                   llm_prompt, faults, search_result, scriptVars, twoVars>>

\* lines 325-327
SearchCallReconcile ==
    /\ pc = "format_done"
    /\ stage_log' = Append(stage_log, "reconcile")
    /\ pc' = "llmrank_start"
    /\ UNCHANGED <<err, topnVars, rerankVars, llmVars, formatted_nids, bridgeVars,
                   format_arg, llm_prompt, faults, search_result, scriptVars,
                   twoVars>>

\* lines 330-332
SearchCallBridge ==
    /\ pc = "llmrank_done"
    /\ stage_log' = Append(stage_log, "bridge")
    /\ pc' = "bridge_start"
    /\ UNCHANGED <<err, topnVars, rerankVars, llmVars, formatted_nids, bridgeVars,
                   format_arg, llm_prompt, faults, search_result, scriptVars,
                   twoVars>>

\* a return placed before the bridge call
SearchReturn_beforeBridge ==
    /\ pc = "llmrank_done"
    /\ search_result' = [kind |-> "result", value |-> per_search_result_dictionary]
    /\ pc' = "search_returned"
    /\ UNCHANGED <<err, topnVars, rerankVars, llmVars, formatted_nids, bridgeVars,
                   format_arg, llm_prompt, stage_log, faults, scriptVars,
                   twoVars>>

\* line 335: the filled dictionary is returned
SearchReturn ==
    /\ pc = "bridge_done"
    /\ search_result' = [kind |-> "result", value |-> per_search_result_dictionary]
    /\ pc' = "search_returned"
    /\ UNCHANGED <<err, topnVars, rerankVars, llmVars, formatted_nids, bridgeVars,
                   format_arg, llm_prompt, stage_log, faults, scriptVars,
                   twoVars>>

\* lines 336-338: an exception of any stage is logged and None is returned
RaisedPcs == {"search_raised", "topn_raised", "rerank_raised", "format_raised"}
SearchExcept ==
    /\ pc \in RaisedPcs
    /\ search_result' = [kind |-> "none"]
    /\ pc' = "search_returned"
    /\ UNCHANGED <<err, topnVars, rerankVars, llmVars, formatted_nids, bridgeVars,
                   format_arg, llm_prompt, stage_log, faults, scriptVars,
                   twoVars>>

InitSearch ==
    /\ pc = "search_start" /\ err = "none"
    /\ IdleLlm /\ IdleFormat /\ IdleBridge /\ IdleScript /\ IdleSearch /\ IdleTwo
    /\ similarity_top_cards_full_fat = <<>>
    /\ num_wanted_back_from_cohere \in {None, Some(1)}
    /\ rerank_requests = <<>> /\ cohere_response = <<>>
    /\ reranked_cards = <<>>
    /\ query_embed = <<>> /\ embeddings = PipelineEmbeddings
    /\ top_n_sim \in 0..MaxRows + 1
    /\ similarity_scores = <<>> /\ top_indices_sim = <<>>
    /\ top_similarities = <<>>

NextSearch ==
    \/ SearchGetEmbedding \/ SearchGetEmbeddingRaises \/ SearchCallTopN
    \/ TopNCheckDims \/ TopNSimilarity \/ TopNSelect
    \/ SearchCallRerank
    \/ RerankStart \/ SearchRerankCallReturns \/ RerankCallRaises \/ RerankReconstruct
    \/ SearchAssemblePrompt \/ SearchChatReturns \/ SearchChatFails
    \/ SearchCallExtract \/ ExtractNid
    \/ SearchCallFormat \/ FormatNidsForAnki
    \/ SearchCallReconcile \/ CreateLlmRankedCards
    \/ SearchCallBridge
    \/ BridgeStart \/ BridgeRunReturns \/ BridgeRunRaises \/ BridgeParse
    \/ SearchReturn \/ SearchExcept

Spec == InitSearch /\ [][NextSearch]_vars

(***************************************************************************)
(* anki_script.py: main, the process check_anki_status spawns.  Standard   *)
(* input and output are held parsed, as the bridge's are; script_log       *)
(* records each check the process attempts and how it came out.            *)
(***************************************************************************)
\* what may stand on standard input: nothing, text that is no JSON, a JSON
\* document that is no object, an object without the key, and the objects
\* check_anki_status writes
StdinContents ==
    { NotObject("absent"), NotObject("empty"), NotObject("not_json"),
      NotObject("json_array"), NotObject("json_number"),
      NotObject("json_string"),
      JsonObject(<<>>), JsonObject([other |-> <<"x">>]),
      JsonObject([formatted_nids |-> <<>>]),
      JsonObject([formatted_nids |-> FormatNids(<<Nid("1")>>)]) }

\* read_input_data: the default for no input and for text that is no JSON,
\* and whatever json.loads makes of the rest
read_input_data(stdin) ==
    IF stdin.kind \in {"absent", "empty", "not_json"}
    THEN JsonObject([formatted_nids |-> <<>>])
    ELSE stdin

\* lines 245-249: only a dictionary has the method get
ScriptReadInput ==
    /\ pc = "script_start"
    /\ LET input_data == read_input_data(script_stdin)
       IN  IF input_data.kind # "json_object"
           THEN /\ err' = "AttributeError" /\ pc' = "script_crashed"
                /\ UNCHANGED <<built_nid_list, result>>
           ELSE /\ built_nid_list' =
                      IF "formatted_nids" \in DOMAIN input_data.members
                      THEN input_data.members.formatted_nids ELSE <<>>
                /\ result' = [anki_status |-> "myy_error", success |-> FALSE,
                              message |-> ""]
                /\ err' = err /\ pc' = "script_os"
    /\ UNCHANGED <<topnVars, rerankVars, llmVars, formatted_nids, bridgeVars,
                   format_arg, searchVars, script_stdin, script_log,
                   script_printed, twoVars>>

Attempt(step, ok) == Append(script_log, [step |-> step, ok |-> ok])

\* lines 252-256
ScriptOsCheck ==
    /\ pc = "script_os"
    /\ \E supported \in BOOLEAN :
          /\ script_log' = Attempt("platform", supported)
          /\ IF supported
             THEN pc' = "script_running" /\ UNCHANGED <<result, script_printed>>
             ELSE /\ result' =
                        [result EXCEPT !.message = "Unsupported operating system"]
                  /\ script_printed' = Append(script_printed, result')
                  /\ pc' = "script_end"
    /\ UNCHANGED <<err, topnVars, rerankVars, llmVars, formatted_nids, bridgeVars,
                   format_arg, searchVars, script_stdin, built_nid_list,
                   twoVars>>

\* lines 259-260 and 275-277
ScriptRunningCheck ==
    /\ pc = "script_running"
    /\ \E running \in BOOLEAN :
          /\ script_log' = Attempt("running", running)
          /\ IF running
             THEN /\ result' = [result EXCEPT !.anki_status = "Anki is running"]
                  /\ pc' = "script_probe"
             ELSE /\ result' = [result EXCEPT !.anki_status = "Anki not running",
                                              !.message = "Anki is not running"]
                  /\ pc' = "script_print"
    /\ UNCHANGED <<err, topnVars, rerankVars, llmVars, formatted_nids, bridgeVars,
                   format_arg, searchVars, script_stdin, built_nid_list,
                   script_printed, twoVars>>

\* lines 263-267: check_anki_connect_version gives a version or None
ScriptVersionProbe ==
    /\ pc = "script_probe"
    /\ \E version \in {None, Some(6)} :
          /\ script_log' = Attempt("probe", version # None)
          /\ IF version = None
             THEN /\ result' =
                        [result EXCEPT !.message = "Failed to contact AnkiConnect"]
                  /\ script_printed' = Append(script_printed, result')
                  /\ pc' = "script_end"
             ELSE pc' = "script_focus" /\ UNCHANGED <<result, script_printed>>
    /\ UNCHANGED <<err, topnVars, rerankVars, llmVars, formatted_nids, bridgeVars,
                   format_arg, searchVars, script_stdin, built_nid_list,
                   twoVars>>

\* line 274
FocusOrPopulateFailed ==
    [result EXCEPT !.message = "Failed to focus/populate Anki"]

\* a condition of line 270 without the short circuit of "and"
ScriptFocus_noShortCircuit ==
    /\ pc = "script_focus"
    /\ \E focused \in BOOLEAN : script_log' = Attempt("focus", focused)
    /\ pc' = "script_populate"
    /\ UNCHANGED <<err, topnVars, rerankVars, llmVars, formatted_nids, bridgeVars,
                   format_arg, searchVars, script_stdin, built_nid_list, result,
                   script_printed, twoVars>>

\* line 270, left operand: bring_anki_to_front
ScriptFocus ==
    /\ pc = "script_focus"
    /\ \E focused \in BOOLEAN :
          /\ script_log' = Attempt("focus", focused)
          /\ IF focused
             THEN pc' = "script_populate" /\ UNCHANGED result
             ELSE pc' = "script_print" /\ result' = FocusOrPopulateFailed
    /\ UNCHANGED <<err, topnVars, rerankVars, llmVars, formatted_nids, bridgeVars,
                   format_arg, searchVars, script_stdin, built_nid_list,
                   script_printed, twoVars>>

\* a populate_anki_browser without the test of lines 137-139
ScriptPopulate_noEmptyTest ==
    /\ pc = "script_populate"
    /\ \E populated \in BOOLEAN :
          /\ script_log' = Attempt("browse", populated)
          /\ result' =
                IF populated
                THEN [result EXCEPT !.success = TRUE,
                         !.message = "Successfully opened Anki browser with query"]
                ELSE FocusOrPopulateFailed
    /\ pc' = "script_print"
    /\ UNCHANGED <<err, topnVars, rerankVars, llmVars, formatted_nids, bridgeVars,
                   format_arg, searchVars, script_stdin, built_nid_list,
                   script_printed, twoVars>>

\* line 270, right operand, and lines 271-274: populate_anki_browser makes
\* no call for an empty query (lines 137-139)
ScriptPopulate ==
    /\ pc = "script_populate"
    /\ \E populated \in BOOLEAN :
          /\ built_nid_list = <<>> => ~populated
          /\ script_log' = IF built_nid_list = <<>> THEN script_log
                           ELSE Attempt("browse", populated)
          /\ result' =
                IF populated
                THEN [result EXCEPT !.success = TRUE,
                         !.message = "Successfully opened Anki browser with query"]
                ELSE FocusOrPopulateFailed
    /\ pc' = "script_print"
    /\ UNCHANGED <<err, topnVars, rerankVars, llmVars, formatted_nids, bridgeVars,
                   format_arg, searchVars, script_stdin, built_nid_list,
                   script_printed, twoVars>>

\* line 279
ScriptPrint ==
    /\ pc = "script_print"
    /\ script_printed' = Append(script_printed, result)
    /\ pc' = "script_end"
    /\ UNCHANGED <<err, topnVars, rerankVars, llmVars, formatted_nids, bridgeVars,
                   format_arg, searchVars, script_stdin, built_nid_list, result,
                   script_log, twoVars>>

\* what subprocess.run captures of the printed lines
Captured(printed) ==
    IF printed = <<>> THEN NotObject("empty")
    ELSE IF Len(printed) = 1 THEN JsonObject(printed[1])
    ELSE NotObject("not_json")

\* core.py lines 129-141: the process has ended, by return or by a traceback
ScriptExit ==
    /\ pc \in {"script_end", "script_crashed"}
    /\ script_stdout' = Captured(script_printed)
    /\ pc' = "bridge_parse"
    /\ UNCHANGED <<err, topnVars, rerankVars, llmVars, formatted_nids,
                   stdin_payload, anki_status, format_arg, searchVars, scriptVars,
                   twoVars>>

InitScript ==
    /\ pc = "script_start" /\ err = "none"
    /\ IdleTopN /\ IdleRerank /\ IdleLlm /\ IdleFormat /\ IdleBridge /\ IdleSearch /\ IdleTwo
    /\ script_stdin \in StdinContents
    /\ built_nid_list = <<>> /\ result = NoResult
    /\ script_log = <<>> /\ script_printed = <<>>

NextScript ==
    \/ ScriptReadInput \/ ScriptOsCheck \/ ScriptRunningCheck
    \/ ScriptVersionProbe \/ ScriptFocus \/ ScriptPopulate \/ ScriptPrint
    \/ ScriptExit \/ BridgeParse

SpecScript == InitScript /\ [][NextScript]_vars

(***************************************************************************)
(* Two calls of search_flashcards in one process, their stages interleaved *)
(* as they are when a caller runs searches on two threads.  The embedding  *)
(* matrix, the corpus table and the configuration are the one searcher     *)
(* context both calls are given (interface.py line 324), and next_object   *)
(* counts the dictionaries the process has allocated; everything else is   *)
(* a local variable of a call and kept in searches[i].                     *)
(***************************************************************************)
SearchIds == {1, 2}

\* what the four providers answer to one search
\* a query as near to row 1 as to row 2, and one of another dimension
TwoQueries ==
    { [k \in 1..Dim |-> IF k <= 2 THEN 1 ELSE 0], [k \in 1..Dim + 1 |-> 1] }
TwoResponses == { <<Entry(0)>>, <<Entry(1), Entry(0)>> }
TwoTexts == { Token("2") \o Token("1"), Token("9") \o Token("1") }
TwoStdouts ==
    { JsonObject([anki_status |-> "Anki is running", success |-> TRUE,
                  message |-> "Successfully opened Anki browser with query"]),
      NotObject("empty") }
TwoAnswers ==
    [query_embed : TwoQueries, cohere_response : TwoResponses,
     llm_response : TwoTexts, script_stdout : TwoStdouts]

\* the local variables of search_flashcards at its first statement
StartLocals ==
    [pc |-> "start", query_embed |-> <<>>,
     similarity_top_cards_full_fat |-> <<>>, reranked_cards |-> <<>>,
     llm_prompt |-> <<>>, llm_response |-> <<>>,
     extracted_nid_list |-> <<>>, formatted_nids |-> <<>>,
     llm_ranked_cards |-> <<>>, anki_status |-> NotYet,
     card_objects |-> {}, returned |-> NotReturned]

\* lines 306-316 and 321-332: the dictionary a call builds from its locals
result_dictionary_of(l) ==
    [query |-> QueryText,
     similarity_top_cards_full_fat |-> l.similarity_top_cards_full_fat,
     reranked_cards |-> l.reranked_cards,
     llm_prompt |-> l.llm_prompt,
     llm_response |-> l.llm_response,
     extracted_nid_list |-> l.extracted_nid_list,
     formatted_nids |-> l.formatted_nids,
     anki_status |-> l.anki_status,
     llm_ranked_cards |-> l.llm_ranked_cards]

\* a dict literal or dict.copy() per card: n dictionaries no one else holds
Allocated(n) == (next_object + 1)..(next_object + n)

\* line 265
TwoGetEmbedding(i) ==
    /\ searches[i].pc = "start"
    /\ searches' = [searches EXCEPT
                       ![i].query_embed = provider_answers[i].query_embed,
                       ![i].pc = "embedded"]
    /\ UNCHANGED <<pc, err, topnVars, rerankVars, llmVars, formatted_nids,
                   bridgeVars, format_arg, searchVars, scriptVars,
                   corpus_table, provider_answers, next_object>>

\* lines 268-278 and flow.py lines 22-72: the matrix and the table are read
TwoSimilarity(i) ==
    /\ searches[i].pc = "embedded"
    /\ IF DimensionMismatch(searches[i].query_embed, embeddings)
       THEN /\ searches' = [searches EXCEPT ![i].pc = "raised"]
            /\ UNCHANGED next_object
       ELSE \E idx \in TopIndices(
                  SimilarityScores(searches[i].query_embed, embeddings),
                  top_n_sim) :
              LET scores == SimilarityScores(searches[i].query_embed, embeddings)
                  sims == [k \in 1..Len(idx) |-> scores[idx[k]]]
              IN  /\ searches' = [searches EXCEPT
                        ![i].similarity_top_cards_full_fat =
                            prepare_top_cards_list(idx, sims, corpus_table),
                        ![i].card_objects = @ \cup Allocated(Len(idx)),
                        ![i].pc = "ranked"]
                  /\ next_object' = next_object + Len(idx)
    /\ UNCHANGED <<pc, err, topnVars, rerankVars, llmVars, formatted_nids,
                   bridgeVars, format_arg, searchVars, scriptVars,
                   corpus_table, provider_answers>>

\* a workflow that keeps the lookup of prepare_for_cohere in one place of the
\* module, where the other call's lookup replaces it
TwoRerank_sharedLookup(i) ==
    /\ searches[i].pc = "ranked"
    /\ LET cards == searches[3 - i].similarity_top_cards_full_fat
           made == IF NoCards(cards) THEN <<>>
                   ELSE reconstruct_from_cohere(
                            provider_answers[i].cohere_response,
                            cohere_pre_rank_index(cards))
       IN  /\ searches' = [searches EXCEPT
                 ![i].reranked_cards = made,
                 ![i].card_objects = @ \cup Allocated(Len(made)),
                 ![i].pc = "reranked"]
           /\ next_object' = next_object + Len(made)
    /\ UNCHANGED <<pc, err, topnVars, rerankVars, llmVars, formatted_nids,
                   bridgeVars, format_arg, searchVars, scriptVars,
                   corpus_table, provider_answers>>

\* lines 281-286 and rerank.py lines 78-99
TwoRerank(i) ==
    /\ searches[i].pc = "ranked"
    /\ LET cards == searches[i].similarity_top_cards_full_fat
           made == IF NoCards(cards) THEN <<>>
                   ELSE reconstruct_from_cohere(
                            provider_answers[i].cohere_response,
                            cohere_pre_rank_index(cards))
       IN  /\ searches' = [searches EXCEPT
                 ![i].reranked_cards = made,
                 ![i].card_objects = @ \cup Allocated(Len(made)),
                 ![i].pc = "reranked"]
           /\ next_object' = next_object + Len(made)
    /\ UNCHANGED <<pc, err, topnVars, rerankVars, llmVars, formatted_nids,
                   bridgeVars, format_arg, searchVars, scriptVars,
                   corpus_table, provider_answers>>

\* lines 289-297
TwoGenerate(i) ==
    /\ searches[i].pc = "reranked"
    /\ searches' = [searches EXCEPT
          ![i].llm_prompt =
              format_flashcard_results_for_llm(
                  FormatTemplate(personal_LLM_prompt, in_prompt_number),
                  QueryText, searches[i].reranked_cards),
          ![i].llm_response = provider_answers[i].llm_response,
          ![i].pc = "generated"]
    /\ UNCHANGED <<pc, err, topnVars, rerankVars, llmVars, formatted_nids,
                   bridgeVars, format_arg, searchVars, scriptVars,
                   corpus_table, provider_answers, next_object>>

\* lines 300-327
TwoReconcile(i) ==
    /\ searches[i].pc = "generated"
    /\ LET nids == extract_nid(searches[i].llm_response)
           made == create_llm_ranked_cards(searches[i].reranked_cards, nids)
       IN  /\ searches' = [searches EXCEPT
                 ![i].extracted_nid_list = nids,
                 ![i].formatted_nids = FormatNids(nids),
                 ![i].llm_ranked_cards = made,
                 ![i].card_objects = @ \cup Allocated(Len(made)),
                 ![i].pc = "reconciled"]
           /\ next_object' = next_object + Len(made)
    /\ UNCHANGED <<pc, err, topnVars, rerankVars, llmVars, formatted_nids,
                   bridgeVars, format_arg, searchVars, scriptVars,
                   corpus_table, provider_answers>>

\* lines 330-332: each call starts a script process of its own
TwoBridge(i) ==
    /\ searches[i].pc = "reconciled"
    /\ searches' = [searches EXCEPT
          ![i].anki_status = StatusFromStdout(provider_answers[i].script_stdout),
          ![i].pc = "synced"]
    /\ UNCHANGED <<pc, err, topnVars, rerankVars, llmVars, formatted_nids,
                   bridgeVars, format_arg, searchVars, scriptVars,
                   corpus_table, provider_answers, next_object>>

\* lines 335-338
TwoReturn(i) ==
    /\ searches[i].pc \in {"synced", "raised"}
    /\ searches' = [searches EXCEPT
          ![i].returned =
              IF searches[i].pc = "raised" THEN [kind |-> "none"]
              ELSE [kind |-> "result",
                    value |-> result_dictionary_of(searches[i])],
          ![i].pc = "returned"]
    /\ UNCHANGED <<pc, err, topnVars, rerankVars, llmVars, formatted_nids,
                   bridgeVars, format_arg, searchVars, scriptVars,
                   corpus_table, provider_answers, next_object>>

InitTwo ==
    /\ pc = "two_searches" /\ err = "none"
    /\ IdleRerank /\ IdleLlm /\ IdleFormat /\ IdleBridge /\ IdleSearch
    /\ IdleScript
    /\ query_embed = <<>> /\ embeddings = PipelineEmbeddings
    /\ top_n_sim = MaxRows
    /\ similarity_scores = <<>> /\ top_indices_sim = <<>>
    /\ top_similarities = <<>>
    /\ corpus_table = Corpus
    /\ provider_answers \in [SearchIds -> TwoAnswers]
    /\ searches = [i \in SearchIds |-> StartLocals]
    /\ next_object = 0

NextTwo ==
    \E i \in SearchIds :
        \/ TwoGetEmbedding(i) \/ TwoSimilarity(i) \/ TwoRerank(i)
        \/ TwoGenerate(i) \/ TwoReconcile(i) \/ TwoBridge(i) \/ TwoReturn(i)

SpecTwo == InitTwo /\ [][NextTwo]_vars

(***************************************************************************)
(* Claims about get_top_n_similarities_and_indices, under SpecTopN.        *)
(***************************************************************************)
Selected == Range(top_indices_sim)
Unselected == (1..Len(embeddings)) \ Selected

\* C1: for 0 <= n <= number of rows, topN returns at most n results and the
\* returned scores are in non-increasing order.
C1_AtMostNDescending ==
    (pc = "topn_done" /\ top_n_sim <= Len(embeddings)) =>
        /\ Len(top_indices_sim) <= top_n_sim
        /\ Len(top_similarities) = Len(top_indices_sim)
        /\ \A i \in 1..Len(top_similarities) - 1 :
              top_similarities[i] >= top_similarities[i + 1]

\* C2 as claimed: of two returned rows with equal similarity the one with the
\* smaller corpus index comes first, and of rows tied at the cut-off the ones
\* with the smallest indices are selected.
C2_TiesByAscendingIndex ==
    pc = "topn_done" =>
        /\ \A i, j \in 1..Len(top_indices_sim) :
              (i < j /\ top_similarities[i] = top_similarities[j])
                  => top_indices_sim[i] < top_indices_sim[j]
        /\ \A s \in Selected, u \in Unselected :
              similarity_scores[s] = similarity_scores[u] => s < u

\* C2 as amended: the returned indices are distinct rows, each paired with
\* its own score, and no row left out has a higher similarity than a row
\* returned; the order of equal rows and the choice among rows tied at the
\* cut-off are not determined.
C2_SelectsTopRows ==
    pc = "topn_done" =>
        /\ \A i, j \in 1..Len(top_indices_sim) :
              top_indices_sim[i] = top_indices_sim[j] => i = j
        /\ \A i \in 1..Len(top_indices_sim) :
              top_similarities[i] = similarity_scores[top_indices_sim[i]]
        /\ \A s \in Selected, u \in Unselected :
              similarity_scores[s] >= similarity_scores[u]

\* a selection that left a row out, with a tie at the cut-off resolved in
\* favour of the larger index
C2_Witness ==
    /\ pc = "topn_done" /\ top_n_sim >= 1
    /\ \E s \in Selected, u \in Unselected :
          similarity_scores[s] = similarity_scores[u] /\ s > u

\* C3: the dimension-mismatch error is raised if and only if the query's
\* length differs from the matrix's column count, and it is raised before
\* any similarity is computed.
C3_DimensionMismatchIff ==
    /\ pc # "topn_start" =>
          (err = DimErr <=> Len(query_embed) # Cols(embeddings))
    /\ err = DimErr =>
          /\ pc = "topn_raised"
          /\ similarity_scores = <<>> /\ top_indices_sim = <<>>

C3_Witness ==
    /\ pc = "topn_raised" /\ err = DimErr
    /\ Len(query_embed) = Len(embeddings)
    /\ Len(query_embed) # Cols(embeddings)

(***************************************************************************)
(* Claims about the rerank stage, under SpecRerank.                        *)
(***************************************************************************)
\* C4: rerank_workflow on an empty list of similarity-ranked cards returns
\* an empty list and makes no call to the RerankProvider.
C4_EmptyInputNoProviderCall ==
    similarity_top_cards_full_fat = <<>> =>
        /\ rerank_requests = <<>>
        /\ pc \in {"rerank_start", "rerank_done"}
        /\ pc = "rerank_done" => reranked_cards = <<>>

C4_Witness ==
    /\ pc = "rerank_done" /\ similarity_top_cards_full_fat = <<>>
    /\ reranked_cards = <<>> /\ rerank_requests = <<>>

\* C5: in every list the reconciler returns, also for a response with
\* indices absent from the source set, the i-th element has relevance_rank i
\* (the ranks are exactly 1..len(list)).
C5_RelevanceRankDense ==
    pc = "rerank_done" =>
        \A i \in 1..Len(reranked_cards) : reranked_cards[i].relevance_rank = i

(***************************************************************************)
(* Claims about create_llm_ranked_cards, under SpecLlmRank.                *)
(***************************************************************************)
CandidateNids == {reranked_cards[i].nid : i \in 1..Len(reranked_cards)}

\* C6: the llm_rank values are dense and 1-based over the resolvable ids
\* only: the k-th returned card has llm_rank k, even when some extracted ids
\* match no card and are skipped.
C6_LlmRankDense ==
    pc = "llmrank_done" =>
        \A k \in 1..Len(llm_ranked_cards) : llm_ranked_cards[k].llm_rank = k

\* C7: when all extracted ids resolve, the i-th output card is the card
\* whose id is the i-th extracted id, whatever its relevance rank.
C7_OrderFollowsExtractedIds ==
    (pc = "llmrank_done" /\ Range(extracted_nid_list) \subseteq CandidateNids) =>
        /\ Len(llm_ranked_cards) = Len(extracted_nid_list)
        /\ \A i \in 1..Len(extracted_nid_list) :
              /\ llm_ranked_cards[i].nid = extracted_nid_list[i]
              /\ llm_ranked_cards[i].llm_rank = i

\* two resolving ids named in the opposite of their relevance order
C7_Witness ==
    /\ pc = "llmrank_done" /\ Len(extracted_nid_list) = 2
    /\ Range(extracted_nid_list) \subseteq CandidateNids
    /\ Len(llm_ranked_cards) = 2
    /\ llm_ranked_cards[1].relevance_rank > llm_ranked_cards[2].relevance_rank

(***************************************************************************)
(* Claims about extract_nid, under SpecExtract.                            *)
(***************************************************************************)
\* the places of a text where open, 13 digits and "]" stand
TokenAt(text, p, open) ==
    /\ p + Len(open) + NidWidth <= Len(text)
    /\ \A k \in 1..Len(open) : text[p + k - 1] = open[k]
    /\ \A k \in 1..NidWidth : text[p + Len(open) + k - 1] \in Digits
    /\ text[p + Len(open) + NidWidth] = "]"

RECURSIVE Ascending(_)
Ascending(S) ==
    IF S = {} THEN <<>>
    ELSE LET m == CHOOSE x \in S : \A y \in S : x <= y
         IN  <<m>> \o Ascending(S \ {m})

\* the 13-digit strings of all such places, in order of appearance
TokensOf(text, open) ==
    LET places == Ascending({p \in 1..Len(text) : TokenAt(text, p, open)})
    IN  [i \in 1..Len(places) |->
            [k \in 1..NidWidth |-> text[places[i] + Len(open) + k - 1]]]

\* C8 as claimed: extract_nid returns, in order of appearance and with
\* repeats kept, exactly the digit strings of the substrings matching
\* [id:<13 digits>].
C8_ExtractsIdTokens ==
    pc = "extract_done" =>
        extracted_nid_list = TokensOf(llm_response, <<"[", "i", "d", ":">>)

\* C8 as amended: the pattern is [nid:<13 digits>]; the result is exactly the
\* digit strings of its matches in order of appearance, repeats kept, so a
\* bracketed number of 12 or 14 digits and a text without a match give
\* nothing.
C8_ExtractsNidTokens ==
    pc = "extract_done" =>
        extracted_nid_list = TokensOf(llm_response, <<"[", "n", "i", "d", ":">>)

\* a repeated id kept twice, in a text that also holds a bracketed number
\* that is no 13-digit token
C8_Witness ==
    /\ pc = "extract_done"
    /\ Len(extracted_nid_list) = 2
    /\ extracted_nid_list[1] = extracted_nid_list[2]
    /\ Len(llm_response) > 2 * PatternLen + Len(PatternOpen) + 1

(***************************************************************************)
(* Claims about format_nids_for_anki, under SpecFormat.                    *)
(***************************************************************************)
RECURSIVE SplitComma(_)
SplitComma(text) ==
    IF \A i \in 1..Len(text) : text[i] # ","
    THEN <<text>>
    ELSE LET i == CHOOSE c \in 1..Len(text) :
                    text[c] = "," /\ \A b \in 1..c - 1 : text[b] # ","
         IN  <<SubSeq(text, 1, i - 1)>> \o SplitComma(SubSeq(text, i + 1, Len(text)))

\* C9 as claimed: the identifier query string is empty for an empty list and
\* otherwise "id:" followed by the identifiers in order joined by commas.
C9_FormatIdPrefix ==
    pc = "format_done" =>
        IF extracted_nid_list = <<>>
        THEN formatted_nids = <<>>
        ELSE /\ Len(formatted_nids) >= 3
             /\ SubSeq(formatted_nids, 1, 3) = <<"i", "d", ":">>
             /\ SplitComma(SubSeq(formatted_nids, 4, Len(formatted_nids)))
                    = extracted_nid_list

\* C9 as amended: the prefix is "nid:", so ["111","222"] gives "nid:111,222".
C9_FormatNidPrefix ==
    pc = "format_done" =>
        /\ IF extracted_nid_list = <<>>
           THEN formatted_nids = <<>>
           ELSE /\ Len(formatted_nids) >= 4
                /\ SubSeq(formatted_nids, 1, 4) = <<"n", "i", "d", ":">>
                /\ SplitComma(SubSeq(formatted_nids, 5, Len(formatted_nids)))
                       = extracted_nid_list
        /\ extracted_nid_list = << <<"1", "1", "1">>, <<"2", "2", "2">> >> =>
              formatted_nids = <<"n", "i", "d", ":", "1", "1", "1", ",", "2", "2", "2">>

C9_Witness ==
    /\ pc = "format_done"
    /\ extracted_nid_list = << <<"1", "1", "1">>, <<"2", "2", "2">> >>
    /\ formatted_nids = <<"n", "i", "d", ":", "1", "1", "1", ",", "2", "2", "2">>

(***************************************************************************)
(* Claims about check_anki_status, under SpecBridge.                       *)
(***************************************************************************)
ScriptStatuses == {r.members.anki_status : r \in ScriptResults}

Returned == search_result.kind # "pending"
BridgeCalled == "bridge" \in Range(stage_log)
EarlierFields ==
    <<similarity_top_cards_full_fat, reranked_cards, llm_prompt, llm_response,
      extracted_nid_list, formatted_nids, llm_ranked_cards>>
EarlierFieldsOf(value) ==
    <<value.similarity_top_cards_full_fat, value.reranked_cards, value.llm_prompt,
      value.llm_response, value.extracted_nid_list, value.formatted_nids,
      value.llm_ranked_cards>>

StagesRun == Range(stage_log)

\* C12: when the generation call raises, the search returns the failure
\* indicator and no result, and neither the id extraction, nor the rank
\* reconciliation, nor the bridge call runs.
C12_GenerationFailureFatal ==
    "generation" \in Range(faults) =>
        /\ StagesRun \cap {"extract", "reconcile", "bridge"} = {}
        /\ stdin_payload = <<>>
        /\ search_result.kind # "result"
        /\ pc = "search_returned" => search_result.kind = "none"

\* the failures of the stages before the generation call
EmbeddingFailed == "embedding" \in Range(faults)
DimensionFailed ==
    /\ "similarity" \in StagesRun /\ pc # "topn_start"
    /\ DimensionMismatch(query_embed, embeddings)
RerankFailed == rerank_requests # <<>> /\ err = "RequestException"

BridgeStatuses ==
    {ErrFormat, ErrStructure, ErrDefault, ErrChecking}
    \cup {out.members.anki_status : out \in ScriptResults}

\* C14: a search that has returned gave either the failure indicator or a
\* dictionary whose nine fields all hold their final values: the formatted
\* query of the extracted ids, the reconciled list, and a status the bridge
\* produced; no placeholder is returned.
C14_ReturnsNoneOrFilledResult ==
    Returned =>
        \/ search_result.kind = "none"
        \/ /\ search_result.kind = "result"
           /\ search_result.value = per_search_result_dictionary
           /\ {"format", "reconcile", "bridge"} \subseteq StagesRun
           /\ LET v == search_result.value
              IN  /\ v.anki_status # NotYet
                  /\ v.anki_status \in BridgeStatuses
                  /\ v.formatted_nids = FormatNids(v.extracted_nid_list)
                  /\ v.llm_ranked_cards =
                         create_llm_ranked_cards(v.reranked_cards,
                                                 v.extracted_nid_list)
                  /\ v.extracted_nid_list = extract_nid(v.llm_response)
                  /\ v.llm_prompt # <<>>
                  /\ v.similarity_top_cards_full_fat # <<>>

\* a dictionary with a query string and a reconciled card was returned
C14_Witness ==
    /\ search_result.kind = "result"
    /\ search_result.value.formatted_nids # <<>>
    /\ search_result.value.llm_ranked_cards # <<>>
    /\ search_result.value.anki_status = "Anki is running"

\* the stages in the order of search_flashcards, and those the order names
StageOrder ==
    <<"embedding", "similarity", "rerank", "prompt", "generation", "extract",
      "format", "reconcile", "bridge">>
IsNamedStage(s) == s # "format"
IsPrefix(s, t) == Len(s) <= Len(t) /\ s = SubSeq(t, 1, Len(s))
\* the stage a position of the program belongs to
StageOfPc ==
    [p \in {"topn_start", "topn_checked", "topn_scored", "topn_raised"}
        |-> "similarity"]
    @@ [p \in {"rerank_start", "rerank_call", "rerank_reconstruct", "rerank_raised"}
        |-> "rerank"]
    @@ [p \in {"extract_start"} |-> "extract"]
    @@ [p \in {"format_start", "format_raised"} |-> "format"]
    @@ [p \in {"llmrank_start"} |-> "reconcile"]
    @@ [p \in {"bridge_start", "bridge_run", "bridge_parse"} |-> "bridge"]

\* C20: the stages are invoked in the order embedding, similarity search,
\* rerank, prompt assembly, generation, id extraction, rank reconciliation,
\* bridge, each at most once and none while another is running; each
\* provider and the script are called at most once, and nothing is invoked
\* after a stage has failed.
C20_StagesInOrderAtMostOnce ==
    /\ IsPrefix(SelectSeq(stage_log, IsNamedStage),
                SelectSeq(StageOrder, IsNamedStage))
    /\ IsPrefix(stage_log, StageOrder)
    /\ pc \in DOMAIN StageOfPc =>
           stage_log # <<>> /\ stage_log[Len(stage_log)] = StageOfPc[pc]
    /\ Len(rerank_requests) <= 1 /\ Len(stdin_payload) <= 1
    /\ rerank_requests # <<>> => "rerank" \in StagesRun
    /\ stdin_payload # <<>> => "bridge" \in StagesRun
    /\ Len(faults) <= 1
    /\ err # "none" => pc \in RaisedPcs \cup {"search_returned"}

\* all eight stages were invoked, one after the other
C20_Witness ==
    /\ SelectSeq(stage_log, IsNamedStage) = SelectSeq(StageOrder, IsNamedStage)
    /\ Len(rerank_requests) = 1 /\ Len(stdin_payload) = 1
    /\ pc = "search_returned"

(***************************************************************************)
(* Claims about anki_script.py main, under SpecScript.                     *)
(***************************************************************************)
ScriptEnded == pc \in {"bridge_parse", "bridge_done"}
LastAttempt == script_log[Len(script_log)]

\* the state of the process's state machine, read off the checks it made
TerminalState ==
    IF script_log = <<>> THEN "Start"
    ELSE IF LastAttempt.step = "platform"
         THEN IF LastAttempt.ok THEN "OSChecked" ELSE "Unsupported"
    ELSE IF LastAttempt.step = "running"
         THEN IF LastAttempt.ok THEN "RunningChecked" ELSE "NotRunning"
    ELSE IF LastAttempt.step = "probe"
         THEN IF LastAttempt.ok THEN "ConnectorChecked" ELSE "Unreachable"
    ELSE IF LastAttempt.step = "browse" /\ LastAttempt.ok
         THEN "FocusedAndPopulated"
    ELSE IF pc \in {"script_populate"} THEN "ConnectorChecked"
    ELSE "FocusOrPopulateFailed"

TerminalStates ==
    {"Unsupported", "NotRunning", "Unreachable", "FocusedAndPopulated",
     "FocusOrPopulateFailed"}

\* C15: every run of main that has ended is in one of the five terminal
\* states and has written exactly one JSON object, with the keys
\* anki_status, success and message, to its standard output.
C15_EveryRunPrintsOneResponse ==
    ScriptEnded =>
        /\ TerminalState \in TerminalStates
        /\ Len(script_printed) = 1
        /\ DOMAIN script_printed[1] = {"anki_status", "success", "message"}
        /\ script_stdout = JsonObject(script_printed[1])
        /\ script_stdout \in ScriptResults

HasIdentifierQuery(stdin) ==
    stdin.kind = "json_object" /\ "formatted_nids" \in DOMAIN stdin.members

\* C16: whatever stands on standard input, the run ends without an
\* exception and with one JSON response, and when the input is absent,
\* empty, no JSON, or JSON that is no object with a formatted_nids key, the
\* identifier query is the empty string.
C16_AnyStdinGivesOneResponse ==
    /\ pc # "script_crashed"
    /\ ScriptEnded =>
          /\ err = "none"
          /\ Len(script_printed) = 1
          /\ ~HasIdentifierQuery(script_stdin) => built_nid_list = <<>>

\* the anki_status member main prints in each terminal state
\* (anki_script.py lines 249, 260 and 276)
TerminalStatus ==
    [t \in TerminalStates |->
        IF t = "Unsupported" THEN "myy_error"
        ELSE IF t = "NotRunning" THEN "Anki not running"
        ELSE "Anki is running"]

\* C17: after a run on a request of the bridge, the status check_anki_status
\* returns is the status of the terminal state the run ended in and of no
\* other among Unsupported, NotRunning, Unreachable and FocusedAndPopulated.
C17_StatusIdentifiesTerminalState ==
    (pc = "bridge_done" /\ HasIdentifierQuery(script_stdin)) =>
        /\ anki_status = TerminalStatus[TerminalState]
        /\ \A other \in {"Unsupported", "NotRunning", "Unreachable",
                         "FocusedAndPopulated"} \ {TerminalState} :
               TerminalState # "FocusOrPopulateFailed" =>
                   anki_status # TerminalStatus[other]

StepOrder == <<"platform", "running", "probe", "focus", "browse">>

\* C18: the checks the process attempts are an initial part of platform
\* check, running check, version probe, window focus, browse call, in this
\* order, and a check is attempted only when every check before it came out
\* well.
C18_ChecksInOrderEachAfterSuccess ==
    /\ Len(script_log) <= Len(StepOrder)
    /\ \A i \in 1..Len(script_log) : script_log[i].step = StepOrder[i]
    /\ \A i \in 2..Len(script_log) : script_log[i - 1].ok

\* all five checks were attempted, and one stopped after a failed focus
C18_Witness ==
    /\ ScriptEnded /\ Len(script_log) = 5
    /\ script_printed # <<>> /\ script_printed[1].success

(***************************************************************************)
(* A claim about format_nids_for_anki's argument, under SpecFormat.        *)
(***************************************************************************)
\* C19: called with None or with a dictionary that has no extracted_nid_list
\* key, format_nids_for_anki does not raise and gives a dictionary whose
\* formatted_nids is the empty string.
C19_MissingListGivesEmptyQuery ==
    MissingList(format_arg) =>
        /\ pc # "format_raised" /\ err = "none"
        /\ pc = "format_done" => formatted_nids = <<>>

(***************************************************************************)
(* Claims about the stages inside a search, under Spec.                    *)
(***************************************************************************)
PromptAssembled == "prompt" \in StagesRun

\* the lines of a text, each ended by a line break
RECURSIVE LinesOf(_)
LinesOf(text) ==
    IF text = <<>> THEN <<>>
    ELSE LET k == CHOOSE k \in 1..Len(text) + 1 :
                     /\ k = Len(text) + 1 \/ text[k] = "\n"
                     /\ \A j \in 1..k - 1 : text[j] # "\n"
         IN  IF k > Len(text) THEN <<text>>
             ELSE <<SubSeq(text, 1, k - 1)>>
                  \o LinesOf(SubSeq(text, k + 1, Len(text)))

\* the prompt up to and including the heading of the pool
PromptHead ==
    format_flashcard_results_for_llm(
        FormatTemplate(personal_LLM_prompt, in_prompt_number), QueryText, <<>>)
PoolLines ==
    IF Len(llm_prompt) >= Len(PromptHead)
    THEN LinesOf(SubSeq(llm_prompt, Len(PromptHead) + 1, Len(llm_prompt)))
    ELSE <<>>
PoolFollowsHead ==
    /\ Len(llm_prompt) >= Len(PromptHead)
    /\ SubSeq(llm_prompt, 1, Len(PromptHead)) = PromptHead
    /\ llm_prompt[Len(llm_prompt)] = "\n"

RECURSIVE KnownPlaces(_, _, _)
KnownPlaces(response, n, k) ==
    IF k = 0 THEN <<>>
    ELSE IF response[k].index \in 0..n - 1
         THEN Append(KnownPlaces(response, n, k - 1), k)
         ELSE KnownPlaces(response, n, k - 1)
HasUnknownIndex ==
    \E k \in 1..Len(cohere_response) :
        cohere_response[k].index \notin 0..Len(similarity_top_cards_full_fat) - 1

\* C22: when the response names an index that is no position of the sent
\* list, the reconciliation ends without an exception, and the output holds,
\* in the response's order, exactly the entries with a known index, each as
\* the card at that index with the entry's score.
C22_UnknownIndexDropped ==
    (pc = "rerank_done" /\ rerank_requests # <<>>) =>
        LET sent == similarity_top_cards_full_fat
            places == KnownPlaces(cohere_response, Len(sent), Len(cohere_response))
        IN  /\ err = "none"
            /\ Len(reranked_cards) = Len(places)
            /\ \A j \in 1..Len(places) :
                   LET entry == cohere_response[places[j]]
                       card == reranked_cards[j]
                   IN  /\ card.nid = sent[entry.index + 1].nid
                       /\ card.content = sent[entry.index + 1].content
                       /\ card.relevance_score = entry.relevance_score

\* an entry with an unknown index came first and the entry after it was kept
C22_Witness ==
    /\ pc = "rerank_done" /\ Len(cohere_response) = 2
    /\ cohere_response[1].index = Len(similarity_top_cards_full_fat)
    /\ Len(reranked_cards) = 1
    /\ reranked_cards[1].relevance_score = cohere_response[2].relevance_score

NidsOf(cards) == {cards[i].nid : i \in 1..Len(cards)}

\* C23: in every returned dictionary each card of llm_ranked_cards has the
\* nid of a card of reranked_cards, each card of reranked_cards has the nid
\* of a card of similarity_top_cards_full_fat, and each card of that list
\* has the nid and the content of one row of the corpus.
C23_IdsTraceBackToCorpus ==
    search_result.kind = "result" =>
        LET v == search_result.value
        IN  /\ NidsOf(v.llm_ranked_cards) \subseteq NidsOf(v.reranked_cards)
            /\ NidsOf(v.reranked_cards)
                   \subseteq NidsOf(v.similarity_top_cards_full_fat)
            /\ \A i \in 1..Len(v.similarity_top_cards_full_fat) :
                   \E r \in 1..Len(Corpus) :
                       /\ v.similarity_top_cards_full_fat[i].nid = Corpus[r].nid
                       /\ v.similarity_top_cards_full_fat[i].content
                              = Corpus[r].flashcard_content
            /\ \A i \in 1..Len(v.reranked_cards) :
                   \E j \in 1..Len(v.similarity_top_cards_full_fat) :
                       /\ v.reranked_cards[i].nid
                              = v.similarity_top_cards_full_fat[j].nid
                       /\ v.reranked_cards[i].content
                              = v.similarity_top_cards_full_fat[j].content

\* the text named an id of no card, the rerank named an index of no card,
\* and a card still reached the last list
C23_Witness ==
    /\ search_result.kind = "result"
    /\ Nid("9") \in Range(search_result.value.extracted_nid_list)
    /\ search_result.value.llm_ranked_cards # <<>>
    /\ Len(cohere_response) > Len(search_result.value.reranked_cards)
    /\ Len(search_result.value.similarity_top_cards_full_fat) = 2

SimilarityFields ==
    {"cosine_similarity_rank", "nid", "cosine_similarity_score", "content"}
RelevanceFields == SimilarityFields \cup {"relevance_score", "relevance_rank"}

\* C24: in the returned dictionary reranked_cards is the list the rerank
\* stage produced, its cards carry relevance_rank and no llm_rank, a card
\* whose nid the text never names is in reranked_cards and not in
\* llm_ranked_cards, and similarity_top_cards_full_fat is the list the
\* similarity stage produced, its cards without relevance fields.
C24_EarlierListsUnchanged ==
    search_result.kind = "result" =>
        LET v == search_result.value
            sent == v.similarity_top_cards_full_fat
        IN  /\ v.reranked_cards =
                   reconstruct_from_cohere(cohere_response,
                                           cohere_pre_rank_index(sent))
            /\ \A i \in 1..Len(v.reranked_cards) :
                   /\ DOMAIN v.reranked_cards[i] = RelevanceFields
                   /\ v.reranked_cards[i].nid \notin Range(v.extracted_nid_list)
                          => v.reranked_cards[i].nid \notin NidsOf(v.llm_ranked_cards)
            /\ sent = prepare_top_cards_list(top_indices_sim, top_similarities,
                                             Corpus)
            /\ \A i \in 1..Len(sent) : DOMAIN sent[i] = SimilarityFields
            /\ \A k \in 1..Len(v.llm_ranked_cards) :
                   DOMAIN v.llm_ranked_cards[k] = RelevanceFields \cup {"llm_rank"}

\* one reranked card was named by the text and another was not
C24_Witness ==
    /\ search_result.kind = "result"
    /\ search_result.value.llm_ranked_cards # <<>>
    /\ \E i \in 1..Len(search_result.value.reranked_cards) :
           search_result.value.reranked_cards[i].nid
               \notin Range(search_result.value.extracted_nid_list)

(***************************************************************************)
(* A further claim about create_llm_ranked_cards, under SpecLlmRank.       *)
(***************************************************************************)
LastWithNid(cards, n) ==
    CHOOSE i \in 1..Len(cards) :
        /\ cards[i].nid = n
        /\ \A j \in 1..Len(cards) : cards[j].nid = n => j <= i
HasDuplicateNid(cards) ==
    \E i, j \in 1..Len(cards) : i < j /\ cards[i].nid = cards[j].nid

\* C25: the reconciliation ends without an exception also when two cards of
\* its input have the same nid, and each card it returns is, llm_rank
\* aside, the last card of the input with that nid.
C25_DuplicateNidLastWins ==
    pc = "llmrank_done" =>
        /\ err = "none"
        /\ \A k \in 1..Len(llm_ranked_cards) :
               LET card == llm_ranked_cards[k]
                   last == reranked_cards[LastWithNid(reranked_cards, card.nid)]
               IN  /\ card.nid \in NidsOf(reranked_cards)
                   /\ \A f \in DOMAIN last : card[f] = last[f]
        /\ \A k \in 1..Len(extracted_nid_list) :
               extracted_nid_list[k] \in NidsOf(reranked_cards) =>
                   \E c \in Range(llm_ranked_cards) :
                       c.llm_rank = k /\ c.nid = extracted_nid_list[k]

\* the input held one nid twice and the text named it twice
C25_Witness ==
    /\ pc = "llmrank_done" /\ HasDuplicateNid(reranked_cards)
    /\ Len(llm_ranked_cards) = 2
    /\ llm_ranked_cards[1].nid = llm_ranked_cards[2].nid
    /\ llm_ranked_cards[1].relevance_rank = 2

(***************************************************************************)
(* Claims about two interleaved searches, under SpecTwo.                   *)
(***************************************************************************)
\* what search_flashcards returns when it runs alone on the untouched matrix
\* and table and the providers answer a: one value for each order the
\* selection may leave tied rows in
AloneResults(a) ==
    IF DimensionMismatch(a.query_embed, PipelineEmbeddings)
    THEN {[kind |-> "none"]}
    ELSE LET scores == SimilarityScores(a.query_embed, PipelineEmbeddings)
         IN  { LET sims == [k \in 1..Len(idx) |-> scores[idx[k]]]
                   similar == prepare_top_cards_list(idx, sims, Corpus)
                   reranked ==
                       IF similar = <<>> THEN <<>>
                       ELSE reconstruct_from_cohere(a.cohere_response,
                                cohere_pre_rank_index(similar))
                   nids == extract_nid(a.llm_response)
               IN  [kind |-> "result",
                    value |->
                      [query |-> QueryText,
                       similarity_top_cards_full_fat |-> similar,
                       reranked_cards |-> reranked,
                       llm_prompt |->
                           format_flashcard_results_for_llm(
                               FormatTemplate(personal_LLM_prompt,
                                              in_prompt_number),
                               QueryText, reranked),
                       llm_response |-> a.llm_response,
                       extracted_nid_list |-> nids,
                       formatted_nids |-> FormatNids(nids),
                       anki_status |-> StatusFromStdout(a.script_stdout),
                       llm_ranked_cards |->
                           create_llm_ranked_cards(reranked, nids)]]
               : idx \in TopIndices(scores, MaxRows) }

\* C26: while two searches interleave, the embedding matrix and the corpus
\* table stay as they were loaded, a search that has returned has returned a
\* value it returns alone for the same provider answers, and no card
\* dictionary of one search is a card dictionary of the other.
C26_SearchesDoNotInterfere ==
    /\ embeddings = PipelineEmbeddings
    /\ corpus_table = Corpus
    /\ \A i \in SearchIds :
          searches[i].returned # NotReturned
              => searches[i].returned \in AloneResults(provider_answers[i])
    /\ searches[1].card_objects \cap searches[2].card_objects = {}

\* both searches returned a result with cards, the answers they were given
\* differ, and search 2 allocated cards between two allocations of search 1
C26_Witness ==
    /\ \A i \in SearchIds :
          /\ searches[i].returned.kind = "result"
          /\ searches[i].returned.value.llm_ranked_cards # <<>>
    /\ provider_answers[1] # provider_answers[2]
    /\ searches[1].returned # searches[2].returned
    /\ \E a, b \in searches[1].card_objects :
          \E o \in searches[2].card_objects : a < o /\ o < b

(***************************************************************************)
(* Claims about the success member, under SpecScript.                      *)
(***************************************************************************)
\* the responses the run has made so far: the one it holds and those printed
ResponsesSoFar == {result} \cup Range(script_printed)
AllFiveSucceeded ==
    /\ Len(script_log) = Len(StepOrder)
    /\ \A i \in 1..Len(script_log) :
          script_log[i].step = StepOrder[i] /\ script_log[i].ok

\* C27: a response of the script has success true only when the platform
\* check, the running check, the version probe, the window focus and the
\* browse call all came out well, in this order, for a query that is not
\* empty; a run with an empty query makes no browse call and no response
\* with success true.
C27_SuccessOnlyWhenFocusedAndPopulated ==
    /\ \A r \in ResponsesSoFar :
          r.success =>
              /\ AllFiveSucceeded
              /\ TerminalState = "FocusedAndPopulated"
              /\ built_nid_list # <<>>
    /\ (pc # "script_start" /\ built_nid_list = <<>>) =>
          /\ \A i \in 1..Len(script_log) : script_log[i].step # "browse"
          /\ \A r \in ResponsesSoFar : ~r.success
    /\ ScriptEnded /\ script_stdout.kind = "json_object"
          => (script_stdout.members.success
                <=> \E r \in Range(script_printed) : r.success)

\* a run printed success true after all five checks, and the bridge has
\* captured it
C27_Witness ==
    /\ ScriptEnded
    /\ script_stdout.kind = "json_object"
    /\ script_stdout.members.success
    /\ AllFiveSucceeded
    /\ built_nid_list # <<>>

(***************************************************************************)
(* Claims about the identifier query sent to the script, under Spec.       *)
(***************************************************************************)
\* the identifiers a query lists: what follows "nid:", split at the commas
IdsListed(q) ==
    IF q = <<>> THEN <<>>
    ELSE IF Len(q) >= 4 /\ SubSeq(q, 1, 4) = <<"n", "i", "d", ":">>
         THEN SplitComma(SubSeq(q, 5, Len(q)))
    ELSE << <<"?">> >>
QuerySent == stdin_payload[1].formatted_nids

\* C28: the one request written to the script's standard input carries the
\* formatted_nids of the search, which is also the formatted_nids of the
\* returned result, and lists the extracted ids, all of them and in
\* extraction order; so every card of the LLM-ranked list has an id that was
\* sent, and that list is no longer than the extracted sequence.
C28_QuerySentIsStoredQuery ==
    /\ Len(stdin_payload) <= 1
    /\ stdin_payload # <<>> =>
          /\ QuerySent = formatted_nids
          /\ IdsListed(QuerySent) = extracted_nid_list
          /\ NidsOf(llm_ranked_cards) \subseteq Range(IdsListed(QuerySent))
          /\ Len(llm_ranked_cards) <= Len(extracted_nid_list)
    /\ (Returned /\ search_result.kind = "result") =>
          /\ Len(stdin_payload) = 1
          /\ QuerySent = search_result.value.formatted_nids
          /\ IdsListed(QuerySent) = search_result.value.extracted_nid_list
          /\ NidsOf(search_result.value.llm_ranked_cards)
                \subseteq Range(IdsListed(QuerySent))
          /\ Len(search_result.value.llm_ranked_cards)
                <= Len(search_result.value.extracted_nid_list)

\* a search returned after sending a query that lists an id no card has
\* beside the id of a card that was found
C28_Witness ==
    /\ Returned /\ search_result.kind = "result"
    /\ Len(stdin_payload) = 1
    /\ Len(IdsListed(QuerySent)) = 2
    /\ search_result.value.llm_ranked_cards # <<>>
    /\ Range(IdsListed(QuerySent)) \ NidsOf(search_result.value.llm_ranked_cards)
          # {}

(***************************************************************************)
(* Claims about the request of the rerank stage, under SpecRerank.         *)
(***************************************************************************)
\* C29: the request the rerank stage makes lists the contents of the
\* similarity-ranked cards in the order of the cards, and its top_n is the
\* wanted number when that is positive and absent when the wanted number is
\* absent or 0.
C29_RequestCarriesContentsAndTopN ==
    /\ Len(rerank_requests) <= 1
    /\ \A r \in 1..Len(rerank_requests) :
          LET request == rerank_requests[r]
              cards == similarity_top_cards_full_fat
              num == num_wanted_back_from_cohere
          IN  /\ Len(request.documents) = Len(cards)
              /\ \A i \in 1..Len(cards) : request.documents[i] = cards[i].content
              /\ \A n \in 1..MaxCards : num = Some(n) => request.top_n = Some(n)
              /\ num \in {None, Some(0)} => request.top_n = None

\* a request for two cards of different contents was made with the wanted
\* number 0
C29_Witness ==
    /\ Len(rerank_requests) = 1
    /\ Len(rerank_requests[1].documents) = 2
    /\ rerank_requests[1].documents[1] # rerank_requests[1].documents[2]
    /\ num_wanted_back_from_cohere = Some(0)
    /\ rerank_requests[1].top_n = None

====
